---- MODULE Spec2Model ----
(***************************************************************************)
(* The library catalogue REST service: three near-duplicate programs over  *)
(* one SQLite file with the tables authors, genres and books.              *)
(*                                                                         *)
(*   "index"  src/index.js                 sqlite3 (callbacks),            *)
(*                                         PRAGMA foreign_keys = ON,       *)
(*                                         presence validation             *)
(*   "sync"   src/unnamed/part_000:1-193   better-sqlite3 (synchronous),   *)
(*                                         foreign_keys = ON, validation,  *)
(*                                         no try/catch in the handlers    *)
(*   "third"  src/unnamed/part_000:195-338 sqlite3 (callbacks), no pragma, *)
(*                                         no validation, no LIMIT/OFFSET, *)
(*                                         seeds only an empty database    *)
(*                                                                         *)
(* The state is the database file plus what the last request was answered. *)
(* Every route handler is a pure operator from (database, input) to        *)
(* (response, database); the actions apply these operators.                *)
(***************************************************************************)
EXTENDS Integers, Sequences, FiniteSets, TLC

VARIABLES variant, db, runs, inversions, nreq, deleted, last

vars == <<variant, db, runs, inversions, nreq, deleted, last>>

Variants == {"index", "sync", "third"}

(***************************************************************************)
(* Bounds of the exploration.                                              *)
(***************************************************************************)
\* how many times the process is started on the same database file
MaxRuns == 2
\* how many POST/PUT/DELETE requests are processed
MaxRequests == 2
\* by how many inversions in all the completion order of the statements that
\* sqlite3 runs in parallel mode may differ from the order they were issued in
MaxReorder == 1

(***************************************************************************)
(* JavaScript values.  A body field that is absent destructures to         *)
(* undefined, which both drivers bind as SQL NULL.                         *)
(***************************************************************************)
NoInt == -1
NoStr == "<undefined>"

\* !x for a number-valued field: undefined and 0 are falsy
IsFalsyInt(x) == x \in {NoInt, 0}
\* !x for a string-valued field: undefined and "" are falsy
IsFalsyStr(x) == x \in {NoStr, ""}

(***************************************************************************)
(* The seed data.                                                          *)
(***************************************************************************)
SeedAuthors == <<"J.K. Rowling", "George Orwell", "J.R.R. Tolkien", "Harper Lee">>

SeedGenres ==
  << [name |-> "Fantasy",   description |-> "magic and mythical creatures"],
     [name |-> "Dystopian", description |-> "oppression and control"],
     [name |-> "Fiction",   description |-> "real-life experiences"] >>

\* the "index" and "sync" programs name the author and the genre
SeedBooks ==
  << [title |-> "Harry Potter and the Sorcerer's Stone", author |-> "J.K. Rowling",
      genre |-> "Fantasy", pages |-> 309, publishedDate |-> "1997-06-26"],
     [title |-> "1984", author |-> "George Orwell",
      genre |-> "Dystopian", pages |-> 328, publishedDate |-> "1949-06-08"],
     [title |-> "The Hobbit", author |-> "J.R.R. Tolkien",
      genre |-> "Fantasy", pages |-> 310, publishedDate |-> "1937-09-21"],
     [title |-> "To Kill a Mockingbird", author |-> "Harper Lee",
      genre |-> "Fiction", pages |-> 324, publishedDate |-> "1960-07-11"] >>

\* the "third" program writes the author and genre ids out
SampleBooks ==
  << [title |-> "Harry Potter and the Sorcerer's Stone", authorid |-> 1,
      genreid |-> 1, pages |-> 309, publishedDate |-> "1997-06-26"],
     [title |-> "1984", authorid |-> 2,
      genreid |-> 2, pages |-> 328, publishedDate |-> "1949-06-08"],
     [title |-> "The Hobbit", authorid |-> 3,
      genreid |-> 1, pages |-> 310, publishedDate |-> "1937-09-21"],
     [title |-> "To Kill a Mockingbird", authorid |-> 4,
      genreid |-> 3, pages |-> 324, publishedDate |-> "1960-07-11"] >>

(***************************************************************************)
(* The schema.  A database is a record of the three tables (sets of rows)  *)
(* and of sqlite_sequence, the largest rowid each AUTOINCREMENT table has  *)
(* ever held.                                                              *)
(***************************************************************************)
EmptyDb ==
  [authors |-> {}, genres |-> {}, books |-> {},
   seq |-> [authors |-> 0, genres |-> 0, books |-> 0]]

\* PRAGMA foreign_keys = ON is issued by "index" and "sync" only
ForeignKeysOn(v) == v \in {"index", "sync"}

\* name TEXT UNIQUE NOT NULL, title TEXT NOT NULL: not in the "third" schema
StrictSchema(v) == v \in {"index", "sync"}

SetMax(S) == IF S = {} THEN 0 ELSE CHOOSE m \in S : \A x \in S : x <= m

\* Faulty variant: INTEGER PRIMARY KEY without AUTOINCREMENT gives a new row
\* the largest rowid now in the table plus one, so the rowid of a deleted
\* last row is given out again.
NextRowidReuse(ids, seqval) == SetMax(ids) + 1

\* INTEGER PRIMARY KEY AUTOINCREMENT: one more than the largest rowid the
\* table has ever held, so the rowid of a deleted row is not given out again
NextRowid(ids, seqval) == SetMax(ids \cup {seqval}) + 1

AuthorIds(d) == {a.authorid : a \in d.authors}
GenreIds(d) == {g.genreid : g \in d.genres}
BookIds(d) == {b.bookid : b \in d.books}

\* FOREIGN KEY (authorid) REFERENCES authors, FOREIGN KEY (genreid) REFERENCES
\* genres: a NULL key satisfies the constraint
ForeignKeysHold(d, authorid, genreid) ==
  /\ authorid = NoInt \/ authorid \in AuthorIds(d)
  /\ genreid = NoInt \/ genreid \in GenreIds(d)

(***************************************************************************)
(* The statements.  A write statement yields the driver's view of it: err  *)
(* ("" when it ran), the rowid it inserted (lastID / lastInsertRowid), the *)
(* number of rows it changed, and the database after it.  A statement that *)
(* violates a constraint is rolled back whole: the database is unchanged.  *)
(***************************************************************************)
Failed(d, msg) == [err |-> msg, lastID |-> 0, changes |-> 0, db |-> d]

\* what err.message reads: sqlite3 prefixes the result code
SqlMessage(v, text) == IF v = "sync" THEN text ELSE "SQLITE_CONSTRAINT: " \o text

\* INSERT [OR IGNORE] INTO authors (name) VALUES (?): under the UNIQUE
\* constraint a name already present is skipped
InsertAuthor(d, v, name) ==
  IF StrictSchema(v) /\ \E a \in d.authors : a.name = name
  THEN d
  ELSE LET id == NextRowid(AuthorIds(d), d.seq.authors)
       IN [d EXCEPT !.authors = @ \cup {[authorid |-> id, name |-> name]},
                    !.seq.authors = id]

\* INSERT [OR IGNORE] INTO genres (name, description) VALUES (?, ?)
InsertGenre(d, v, g) ==
  IF StrictSchema(v) /\ \E x \in d.genres : x.name = g.name
  THEN d
  ELSE LET id == NextRowid(GenreIds(d), d.seq.genres)
       IN [d EXCEPT !.genres = @ \cup {[genreid |-> id, name |-> g.name,
                                         description |-> g.description]},
                    !.seq.genres = id]

\* the constraint a books row with these values violates, "" if none
BookViolation(d, v, f) ==
  IF StrictSchema(v) /\ f.title = NoStr
  THEN SqlMessage(v, "NOT NULL constraint failed: books.title")
  ELSE IF ForeignKeysOn(v) /\ ~ForeignKeysHold(d, f.authorid, f.genreid)
  THEN SqlMessage(v, "FOREIGN KEY constraint failed")
  ELSE ""

BookRow(id, f) ==
  [bookid |-> id, title |-> f.title, authorid |-> f.authorid,
   genreid |-> f.genreid, pages |-> f.pages, publishedDate |-> f.publishedDate]

\* INSERT INTO books (title, authorid, genreid, pages, publishedDate)
\* VALUES (?, ?, ?, ?, ?).  books has no UNIQUE column but bookid, so the
\* OR IGNORE of the seed statements never skips a row.
InsertBook(d, v, f) ==
  IF BookViolation(d, v, f) # ""
  THEN Failed(d, BookViolation(d, v, f))
  ELSE LET id == NextRowid(BookIds(d), d.seq.books)
       IN [err |-> "", lastID |-> id, changes |-> 1,
           db |-> [d EXCEPT !.books = @ \cup {BookRow(id, f)},
                            !.seq.books = id]]

\* Faulty variant: the constraints checked on the bound values before any row
\* is matched, so that an UPDATE matching no row can fail.
UpdateBookEager(d, v, id, f) ==
  IF BookViolation(d, v, f) # ""
  THEN Failed(d, BookViolation(d, v, f))
  ELSE IF id \notin BookIds(d)
  THEN [err |-> "", lastID |-> 0, changes |-> 0, db |-> d]
  ELSE [err |-> "", lastID |-> 0, changes |-> 1,
        db |-> [d EXCEPT !.books =
                  {b \in @ : b.bookid # id} \cup {BookRow(id, f)}]]

\* UPDATE books SET title = ?, authorid = ?, genreid = ?, pages = ?,
\* publishedDate = ? WHERE bookid = ?: constraints are checked on the rows
\* the statement changes, so with no such row it runs and changes nothing
UpdateBook(d, v, id, f) ==
  IF id \notin BookIds(d)
  THEN [err |-> "", lastID |-> 0, changes |-> 0, db |-> d]
  ELSE IF BookViolation(d, v, f) # ""
  THEN Failed(d, BookViolation(d, v, f))
  ELSE [err |-> "", lastID |-> 0, changes |-> 1,
        db |-> [d EXCEPT !.books =
                  {b \in @ : b.bookid # id} \cup {BookRow(id, f)}]]

\* Faulty variant: the delete of a book takes the book's author along.
DeleteFromBooksWithAuthor(d, id) ==
  [err |-> "", lastID |-> 0,
   changes |-> Cardinality({b \in d.books : b.bookid = id}),
   db |-> [d EXCEPT !.books = {b \in @ : b.bookid # id},
                    !.authors = {a \in @ : \A b \in d.books :
                                   b.bookid = id => b.authorid # a.authorid}]]

\* DELETE FROM books WHERE bookid = ?
DeleteFromBooks(d, id) ==
  [err |-> "", lastID |-> 0,
   changes |-> Cardinality({b \in d.books : b.bookid = id}),
   db |-> [d EXCEPT !.books = {b \in @ : b.bookid # id}]]

\* FROM books b JOIN authors a ON b.authorid = a.authorid
\*              JOIN genres g ON b.genreid = g.genreid
Joins(d, b) == b.authorid \in AuthorIds(d) /\ b.genreid \in GenreIds(d)

AuthorName(d, id) == (CHOOSE a \in d.authors : a.authorid = id).name
GenreName(d, id) == (CHOOSE g \in d.genres : g.genreid = id).name

\* Faulty variant: the two name columns under each other's alias.
BookViewSwapped(d, b) ==
  [bookid |-> b.bookid, title |-> b.title, author |-> GenreName(d, b.genreid),
   genre |-> AuthorName(d, b.authorid), pages |-> b.pages,
   publishedDate |-> b.publishedDate]

\* SELECT b.bookid, b.title, a.name AS author, g.name AS genre, b.pages,
\*        b.publishedDate
BookView(d, b) ==
  [bookid |-> b.bookid, title |-> b.title, author |-> AuthorName(d, b.authorid),
   genre |-> GenreName(d, b.genreid), pages |-> b.pages,
   publishedDate |-> b.publishedDate]

\* the ids of S in ascending order: the rows come in rowid order
Ascending(S, top) == SelectSeq([i \in 1..top |-> i], LAMBDA i : i \in S)

BookById(d, id) == CHOOSE b \in d.books : b.bookid = id

\* the list query of "index" and "sync" selects b.authorid and b.genreid too
ListView(d, v, b) ==
  IF v = "third"
  THEN BookView(d, b)
  ELSE [bookid |-> b.bookid, title |-> b.title,
        author |-> AuthorName(d, b.authorid), genre |-> GenreName(d, b.genreid),
        pages |-> b.pages, publishedDate |-> b.publishedDate,
        authorid |-> b.authorid, genreid |-> b.genreid]

\* the rows of the list query before LIMIT and OFFSET
SelectBooks(d, v) ==
  LET ids == Ascending({b.bookid : b \in {x \in d.books : Joins(d, x)}}, d.seq.books)
  IN [i \in 1..Len(ids) |-> ListView(d, v, BookById(d, ids[i]))]

\* LIMIT l OFFSET o: a negative limit is no limit, a negative offset is 0
LimitOffset(rows, l, o) ==
  LET from == IF o < 0 THEN 0 ELSE o
      upto == IF l < 0 \/ from + l > Len(rows) THEN Len(rows) ELSE from + l
      n == IF upto > from THEN upto - from ELSE 0
  IN [i \in 1..n |-> rows[from + i]]

(***************************************************************************)
(* The route handlers: (database, input) to the response and the database  *)
(* after the request.                                                      *)
(***************************************************************************)
\* errorResponse(res, status, message)
errorResponse(d, status, message) ==
  [status |-> status, body |-> [error |-> message], db |-> d]

\* A statement that fails: the callback programs answer 500 with
\* {error: err.message}.  In "sync" the statement throws, no handler catches
\* it, and the framework's default error handler answers 500 with an HTML
\* page, not with the JSON error object.
StorageFailure(d, v, message) ==
  IF v = "sync"
  THEN [status |-> 500, body |-> [html |-> message], db |-> d]
  ELSE errorResponse(d, 500, message)

\* !title || !authorid || !genreid || !pages || !publishedDate
AnyFieldFalsy(f) ==
  \/ IsFalsyStr(f.title)
  \/ IsFalsyInt(f.authorid)
  \/ IsFalsyInt(f.genreid)
  \/ IsFalsyInt(f.pages)
  \/ IsFalsyStr(f.publishedDate)

\* the "third" program has no presence check
Validates(v) == v \in {"index", "sync"}

DefaultPage == 1
DefaultLimit == 10

\* GET /books: page and limit are NoInt when the query string lacks them
GetBooks(d, v, page, limit) ==
  IF v = "third"
  THEN [status |-> 200, body |-> SelectBooks(d, v), db |-> d]
  ELSE LET p == IF page = NoInt THEN DefaultPage ELSE page
           l == IF limit = NoInt THEN DefaultLimit ELSE limit
           offset == (p - 1) * l
       IN [status |-> 200, body |-> LimitOffset(SelectBooks(d, v), l, offset),
           db |-> d]

\* Faulty variant: the book looked up in books alone, without the joins.
GetBookNoJoin(d, id) ==
  IF \E b \in d.books : b.bookid = id
  THEN [status |-> 200, body |-> BookById(d, id), db |-> d]
  ELSE errorResponse(d, 404, "Book not found")

\* GET /books/:id
GetBook(d, id) ==
  IF \E b \in d.books : b.bookid = id /\ Joins(d, b)
  THEN [status |-> 200, body |-> BookView(d, BookById(d, id)), db |-> d]
  ELSE errorResponse(d, 404, "Book not found")

\* POST /books
PostBooks(d, v, f) ==
  IF Validates(v) /\ AnyFieldFalsy(f)
  THEN errorResponse(d, 400, "All fields are required")
  ELSE LET r == InsertBook(d, v, f)
       IN IF r.err # ""
          THEN StorageFailure(d, v, r.err)
          ELSE [status |-> 201, body |-> [bookid |-> r.lastID], db |-> r.db]

\* PUT /books/:id
PutBook(d, v, id, f) ==
  IF Validates(v) /\ AnyFieldFalsy(f)
  THEN errorResponse(d, 400, "All fields are required")
  ELSE LET r == UpdateBook(d, v, id, f)
       IN IF r.err # ""
          THEN StorageFailure(d, v, r.err)
          ELSE IF r.changes = 0
          THEN errorResponse(d, 404, "Book not found")
          ELSE [status |-> 200, body |-> [message |-> "Book updated successfully"],
                db |-> r.db]

\* DELETE /books/:id
DeleteBook(d, id) ==
  LET r == DeleteFromBooks(d, id)
  IN IF r.changes = 0
     THEN errorResponse(d, 404, "Book not found")
     ELSE [status |-> 200, body |-> [message |-> "Book deleted successfully"],
           db |-> r.db]

\* GET /authors: SELECT * FROM authors
GetAuthors(d) == [status |-> 200, body |-> d.authors, db |-> d]

\* GET /genres: SELECT * FROM genres
GetGenres(d) == [status |-> 200, body |-> d.genres, db |-> d]

(***************************************************************************)
(* Startup: schema initialization and seeding.                             *)
(*                                                                         *)
(* Statements issued inside db.serialize run one after the other.  A       *)
(* statement issued from a callback is issued after db.serialize returned, *)
(* in the driver's default parallel mode: such statements are handed to    *)
(* the thread pool together, and the order in which they reach the         *)
(* database is not fixed by the program.  A completion order is a          *)
(* permutation of the issue order; "sync" runs every statement in place.   *)
(***************************************************************************)
Inversions(p) ==
  Cardinality({ij \in (DOMAIN p) \X (DOMAIN p) : ij[1] < ij[2] /\ p[ij[1]] > p[ij[2]]})

InOrder(n) == [i \in 1..n |-> i]

\* p with the statements at places i and i + 1 exchanged
Exchange(p, i) ==
  [k \in DOMAIN p |-> IF k = i THEN p[i + 1] ELSE IF k = i + 1 THEN p[i] ELSE p[k]]

\* the orders of n statements at most k inversions away from the issue order:
\* exchanging two neighbours that are in order adds exactly one inversion
RECURSIVE OrdersWithin(_, _)
OrdersWithin(n, k) ==
  IF k = 0 THEN {InOrder(n)}
  ELSE LET less == OrdersWithin(n, k - 1)
       IN less \cup {Exchange(p, i) : <<p, i>> \in
                       {pi \in less \X (1..(n - 1)) : pi[1][pi[2]] < pi[1][pi[2] + 1]}}

\* authors.forEach / genres.forEach, from the k-th on, in the order o
RECURSIVE InsertAuthors(_, _, _, _)
InsertAuthors(d, v, o, k) ==
  IF k > Len(SeedAuthors) THEN d
  ELSE InsertAuthors(InsertAuthor(d, v, SeedAuthors[o[k]]), v, o, k + 1)

RECURSIVE InsertGenres(_, _, _, _)
InsertGenres(d, v, o, k) ==
  IF k > Len(SeedGenres) THEN d
  ELSE InsertGenres(InsertGenre(d, v, SeedGenres[o[k]]), v, o, k + 1)

\* SELECT a.authorid, g.genreid FROM authors a, genres g
\* WHERE a.name = ? AND g.name = ?   (and the two SELECTs of "sync")
HasRow(d, sb) ==
  /\ \E a \in d.authors : a.name = sb.author
  /\ \E g \in d.genres : g.name = sb.genre

Resolved(d, sb) ==
  [title |-> sb.title,
   authorid |-> (CHOOSE a \in d.authors : a.name = sb.author).authorid,
   genreid |-> (CHOOSE g \in d.genres : g.name = sb.genre).genreid,
   pages |-> sb.pages, publishedDate |-> sb.publishedDate]

\* books.forEach of "index" and "sync": the insert of each book whose author
\* and genre were found, from the k-th on, in the order o
RECURSIVE InsertSeedBooks(_, _, _, _)
InsertSeedBooks(d, v, o, k) ==
  IF k > Len(SeedBooks) THEN d
  ELSE LET sb == SeedBooks[o[k]]
           next == IF HasRow(d, sb) THEN InsertBook(d, v, Resolved(d, sb)).db ELSE d
       IN InsertSeedBooks(next, v, o, k + 1)

\* the sample books of "third", from the k-th on, in the order o
RECURSIVE InsertSampleBooks(_, _, _, _)
InsertSampleBooks(d, v, o, k) ==
  IF k > Len(SampleBooks) THEN d
  ELSE InsertSampleBooks(InsertBook(d, v, SampleBooks[o[k]]).db, v, o, k + 1)

Reordering(o) == Inversions(o.a) + Inversions(o.g) + Inversions(o.b)

\* The completion orders of one startup that are at most k inversions away
\* from the issue order: o.a, o.g, o.b order the author, genre and book
\* inserts.  "sync" runs every statement in place; "index" issues the book
\* inserts from the callbacks of db.get; "third" issues all its inserts from
\* one callback.
CompletionOrders(v, k) ==
  LET na == Len(SeedAuthors)
      ng == Len(SeedGenres)
      nb == Len(SeedBooks)
  IN CASE v = "sync"  -> {[a |-> InOrder(na), g |-> InOrder(ng), b |-> InOrder(nb)]}
       [] v = "index" -> {[a |-> InOrder(na), g |-> InOrder(ng), b |-> b] :
                            b \in OrdersWithin(nb, k)}
       [] v = "third" ->
            UNION { UNION { {[a |-> a, g |-> g, b |-> b] :
                               b \in OrdersWithin(nb, k - Inversions(a) - Inversions(g))} :
                            g \in OrdersWithin(ng, k - Inversions(a)) } :
                    a \in OrdersWithin(na, k) }

\* CREATE TABLE IF NOT EXISTS leaves existing tables alone.  "third" seeds
\* only when SELECT COUNT(*) FROM authors is 0.
Seed(d, v, o) ==
  IF v = "third"
  THEN IF Cardinality(d.authors) = 0
       THEN InsertSampleBooks(InsertGenres(InsertAuthors(d, v, o.a, 1), v, o.g, 1),
                              v, o.b, 1)
       ELSE d
  ELSE InsertSeedBooks(InsertGenres(InsertAuthors(d, v, o.a, 1), v, o.g, 1),
                       v, o.b, 1)

Seeds(d, v) == v # "third" \/ Cardinality(d.authors) = 0

(***************************************************************************)
(* Request inputs.                                                         *)
(***************************************************************************)
\* a body with all five fields naming an existing author and genre
NewBook ==
  [title |-> "Dune", authorid |-> 2, genreid |-> 3, pages |-> 412,
   publishedDate |-> "1965-08-01"]

\* the bodies POST requests carry: well-formed, an author id that names no
\* author, no genreid
ReqBodies ==
  { NewBook,
    [NewBook EXCEPT !.authorid = 9],
    [NewBook EXCEPT !.genreid = NoInt] }

\* the bodies PUT requests carry: well-formed, an author id that names no author
PutBodies == {NewBook, [NewBook EXCEPT !.authorid = 9]}

\* the ids PUT and DELETE requests name: the id given out last, and the next
\* one, which no book has had
WriteIds(d) == {d.seq.books, d.seq.books + 1}

\* the ids GET /books/:id requests name: these, a seeded book, and the ids
\* deleted so far
ReadIds(d, gone) == WriteIds(d) \cup {2} \cup gone

\* every id a book has had, and the next one
AllIds(d) == 1..(d.seq.books + 1)

\* the bodies the properties range over: each field present or not, the
\* author and genre ids naming a row or not
AllBodies ==
  [title : {"Dune", NoStr}, authorid : {2, 9, NoInt}, genreid : {3, 9, NoInt},
   pages : {412, 0}, publishedDate : {"1965-08-01", NoStr}]

\* the bodies of AllBodies that carry all five fields
FullBodies ==
  [title : {"Dune"}, authorid : {2, 9}, genreid : {3, 9}, pages : {412},
   publishedDate : {"1965-08-01"}]

AllQueries == [page : {NoInt, 1, 2}, limit : {NoInt, 1, 2}]

\* the query strings of GET /books: none, ?page=1&limit=1, ?page=2&limit=1
ReqQueries ==
  { [page |-> NoInt, limit |-> NoInt], [page |-> 1, limit |-> 1],
    [page |-> 2, limit |-> 1] }

(***************************************************************************)
(* The state machine.  last is the request answered last: its route, the   *)
(* status of the response, and the book id a GET /books/:id named or a     *)
(* POST /books was given (0 otherwise).                                    *)
(***************************************************************************)
Answered(op, id, r) == [op |-> op, id |-> id, status |-> r.status]

Init ==
  /\ variant \in Variants
  /\ db = EmptyDb
  /\ runs = 0
  /\ inversions = 0
  /\ nreq = 0
  /\ deleted = {}
  /\ last = [op |-> "none", id |-> 0, status |-> 0]

\* the process starts on the database file as it is
Startup ==
  /\ runs < MaxRuns
  /\ \E o \in CompletionOrders(variant,
                               IF Seeds(db, variant) THEN MaxReorder - inversions ELSE 0) :
       /\ db' = Seed(db, variant, o)
       /\ inversions' = inversions + Reordering(o)
  /\ runs' = runs + 1
  /\ last' = [op |-> "startup", id |-> 0, status |-> 0]
  /\ UNCHANGED <<variant, nreq, deleted>>

ReqGetBooks ==
  /\ runs > 0
  /\ \E q \in ReqQueries :
       last' = Answered("GET /books", 0, GetBooks(db, variant, q.page, q.limit))
  /\ UNCHANGED <<variant, db, runs, inversions, nreq, deleted>>

ReqGetBook ==
  /\ runs > 0
  /\ \E id \in ReadIds(db, deleted) :
       last' = Answered("GET /books/:id", id, GetBook(db, id))
  /\ UNCHANGED <<variant, db, runs, inversions, nreq, deleted>>

ReqPostBooks ==
  /\ runs > 0
  /\ nreq < MaxRequests
  /\ \E f \in ReqBodies :
       LET r == PostBooks(db, variant, f)
       IN /\ db' = r.db
          /\ last' = Answered("POST /books",
                              IF r.status = 201 THEN r.body.bookid ELSE 0, r)
  /\ nreq' = nreq + 1
  /\ UNCHANGED <<variant, runs, inversions, deleted>>

ReqPutBook ==
  /\ runs > 0
  /\ nreq < MaxRequests
  /\ \E id \in WriteIds(db), f \in PutBodies :
       LET r == PutBook(db, variant, id, f)
       IN /\ db' = r.db
          /\ last' = Answered("PUT /books/:id", 0, r)
  /\ nreq' = nreq + 1
  /\ UNCHANGED <<variant, runs, inversions, deleted>>

ReqDeleteBook ==
  /\ runs > 0
  /\ nreq < MaxRequests
  /\ \E id \in WriteIds(db) :
       LET r == DeleteBook(db, id)
       IN /\ db' = r.db
          /\ deleted' = IF r.status = 200 THEN deleted \cup {id} ELSE deleted
          /\ last' = Answered("DELETE /books/:id", 0, r)
  /\ nreq' = nreq + 1
  /\ UNCHANGED <<variant, runs, inversions>>

ReqGetAuthors ==
  /\ runs > 0
  /\ last' = Answered("GET /authors", 0, GetAuthors(db))
  /\ UNCHANGED <<variant, db, runs, inversions, nreq, deleted>>

ReqGetGenres ==
  /\ runs > 0
  /\ last' = Answered("GET /genres", 0, GetGenres(db))
  /\ UNCHANGED <<variant, db, runs, inversions, nreq, deleted>>

Next ==
  \/ Startup
  \/ ReqGetBooks
  \/ ReqGetBook
  \/ ReqPostBooks
  \/ ReqPutBook
  \/ ReqDeleteBook
  \/ ReqGetAuthors
  \/ ReqGetGenres

Spec == Init /\ [][Next]_vars

(***************************************************************************)
(* Properties.                                                             *)
(***************************************************************************)

\* C1: a POST /books or PUT /books/:id whose body lacks one of the five
\* fields (or has a falsy value for it) is answered 400 and leaves the three
\* tables as they were.
C1_MissingFieldRejected ==
  runs > 0 =>
    \A f \in AllBodies :
      AnyFieldFalsy(f) =>
        /\ PostBooks(db, variant, f).status = 400
        /\ PostBooks(db, variant, f).db = db
        /\ \A id \in AllIds(db) :
             /\ PutBook(db, variant, id, f).status = 400
             /\ PutBook(db, variant, id, f).db = db

\* C2: for an id that is the bookid of no row, GET, PUT (with all five fields
\* in the body, whatever author and genre they name) and DELETE each answer
\* 404 and leave the books table unchanged.
C2_AbsentIdNotFound ==
  runs > 0 =>
    \A id \in AllIds(db) \ BookIds(db) :
      LET got == GetBook(db, id)
          del == DeleteBook(db, id)
      IN /\ got.status = 404
         /\ got.db = db
         /\ \A f \in FullBodies :
              LET put == PutBook(db, variant, id, f)
              IN put.status = 404 /\ put.db.books = db.books
         /\ del.status = 404
         /\ del.db.books = db.books

\* a PUT with all five fields (PUT bodies all carry them) was answered 404,
\* and an id with no row is still there to name
C2_Witness ==
  /\ last.op = "PUT /books/:id"
  /\ last.status = 404
  /\ AllIds(db) \ BookIds(db) # {}

\* C3: if POST /books with a body P carrying all five fields answers 201 with
\* {bookid: n}, the GET /books/n issued next answers 200 with bookid n, the
\* title, pages and publishedDate of P, and the names of the author and genre
\* rows P.authorid and P.genreid identify.
C3_PostThenGet ==
  runs > 0 =>
    \A f \in FullBodies :
      LET r == PostBooks(db, variant, f)
      IN r.status = 201 =>
           LET g == GetBook(r.db, r.body.bookid)
           IN /\ g.status = 200
              /\ g.body.bookid = r.body.bookid
              /\ g.body.title = f.title
              /\ g.body.pages = f.pages
              /\ g.body.publishedDate = f.publishedDate
              /\ g.body.author = AuthorName(r.db, f.authorid)
              /\ g.body.genre = GenreName(r.db, f.genreid)

\* C4: once DELETE /books/:id has answered 200 for an id, GET /books/:id
\* answers 404 for it in every later state: no later POST is given that id.
C4_DeletedStaysGone ==
  \A id \in deleted : GetBook(db, id).status = 404

\* book 4 was deleted, book 5 was created after it (POST never names an id
\* below the last one given out), and GET /books/4 was answered 404
C4_Witness ==
  /\ runs = 1
  /\ 4 \in deleted
  /\ 5 \in BookIds(db)
  /\ last = [op |-> "GET /books/:id", id |-> 4, status |-> 404]

\* C5: after a second startup on the database the first one seeded, storage
\* holds exactly four books, four authors and three genres.
C5_SeedingIdempotent ==
  (runs = 2 /\ nreq = 0) =>
    /\ Cardinality(db.books) = Len(SeedBooks)
    /\ Cardinality(db.authors) = Len(SeedAuthors)
    /\ Cardinality(db.genres) = Len(SeedGenres)

\* the rows of the list query from offset (page - 1) * limit on, at most limit
PageOf(rows, page, limit) ==
  LET p == IF page = NoInt THEN DefaultPage ELSE page
      l == IF limit = NoInt THEN DefaultLimit ELSE limit
      from == (p - 1) * l
      n == IF Len(rows) - from < 0 THEN 0
           ELSE IF Len(rows) - from < l THEN Len(rows) - from ELSE l
  IN [i \in 1..n |-> rows[from + i]]

\* C6: with at least two books visible, GET /books?page=2&limit=1 returns
\* exactly one book, another one than the single book of ?page=1&limit=1; the
\* list route returns at most limit books from offset (page - 1) * limit on,
\* page defaulting to 1 and limit to 10.
C6_Pagination ==
  runs > 0 =>
    LET rows == SelectBooks(db, variant)
    IN /\ Len(rows) >= 2 =>
            LET first == GetBooks(db, variant, 1, 1).body
                second == GetBooks(db, variant, 2, 1).body
            IN /\ Len(first) = 1
               /\ Len(second) = 1
               /\ first[1] # second[1]
       /\ \A q \in AllQueries :
            GetBooks(db, variant, q.page, q.limit).body = PageOf(rows, q.page, q.limit)

Orwell1984(id) ==
  [bookid |-> id, title |-> "1984", author |-> "George Orwell",
   genre |-> "Dystopian", pages |-> 328, publishedDate |-> "1949-06-08"]

\* C7 as stated: after the first startup on an empty database and before any
\* other request, GET /books/1 answers 200 with exactly the book "1984".
C7_FirstBookIs1984 ==
  (runs = 1 /\ nreq = 0) =>
    /\ GetBook(db, 1).status = 200
    /\ GetBook(db, 1).body = Orwell1984(1)

\* C7 amended: after the first startup on an empty database whose seed
\* statements took effect in the order they were issued, and before any other
\* request, it is GET /books/2 that answers 200 with exactly the book "1984"
\* (bookid 2).
C7_SecondBookIs1984 ==
  (runs = 1 /\ nreq = 0 /\ inversions = 0) =>
    /\ GetBook(db, 2).status = 200
    /\ GetBook(db, 2).body = Orwell1984(2)

C7_Witness ==
  /\ runs = 1
  /\ nreq = 0
  /\ inversions = 0
  /\ last = [op |-> "GET /books/:id", id |-> 2, status |-> 200]

\* the statement of POST /books or PUT /books/:id is issued once validation
\* has passed
Issues(v, f) == ~(Validates(v) /\ AnyFieldFalsy(f))

\* C8: when the statement a handler issues fails at the storage layer, the
\* request is answered 500 with the JSON body {error: <the storage error's
\* message>} and no row is inserted or changed.
C8_StorageFailureAnswered ==
  runs > 0 =>
    \A f \in AllBodies :
      /\ (Issues(variant, f) /\ InsertBook(db, variant, f).err # "") =>
           LET r == PostBooks(db, variant, f)
           IN /\ r.status = 500
              /\ r.body = [error |-> InsertBook(db, variant, f).err]
              /\ r.db = db
      /\ \A id \in AllIds(db) :
           (Issues(variant, f) /\ UpdateBook(db, variant, id, f).err # "") =>
             LET r == PutBook(db, variant, id, f)
             IN /\ r.status = 500
                /\ r.body = [error |-> UpdateBook(db, variant, id, f).err]
                /\ r.db = db

\* C9: every books row whose authorid is not null references an authors row,
\* and whose genreid is not null references a genres row.
C9_ReferentialIntegrity ==
  \A b \in db.books : ForeignKeysHold(db, b.authorid, b.genreid)

\* C10: the read routes return only books whose author and genre resolve; a
\* stored book with a null or dangling authorid or genreid is in no page of
\* GET /books and GET /books/:id answers 404 for it, while PUT /books/:id
\* (with a body of five fields naming an author and a genre) and
\* DELETE /books/:id find the row and answer 200.
C10_UnresolvedBookHidden ==
  runs > 0 =>
    /\ LET joined == {b.bookid : b \in {x \in db.books : Joins(db, x)}}
       IN \A q \in ReqQueries :
            LET rows == GetBooks(db, variant, q.page, q.limit).body
            IN \A i \in 1..Len(rows) : rows[i].bookid \in joined
    /\ \A b \in db.books :
         ~Joins(db, b) =>
           LET del == DeleteBook(db, b.bookid)
           IN /\ GetBook(db, b.bookid).status = 404
              /\ \A f \in FullBodies :
                   ForeignKeysHold(db, f.authorid, f.genreid) =>
                     LET put == PutBook(db, variant, b.bookid, f)
                     IN put.status = 200 /\ BookRow(b.bookid, f) \in put.db.books
              /\ del.status = 200
              /\ b \notin del.db.books

\* a book is stored whose author or genre does not resolve, and the
\* GET /books/:id for it was answered 404
C10_Witness ==
  \E b \in db.books :
    /\ ~Joins(db, b)
    /\ last = [op |-> "GET /books/:id", id |-> b.bookid, status |-> 404]

\* C11: a request to any route, answered with success or with an error,
\* leaves every row of authors and of genres as it was; GET /authors and
\* GET /genres answer the same rows in every state after the first startup,
\* later startups included.  (A step that keeps runs is a request: only a
\* startup counts a run.)
C11_RequestsKeepAuthorsAndGenres ==
  [][/\ runs' = runs => db'.authors = db.authors /\ db'.genres = db.genres
     /\ runs > 0 => /\ GetAuthors(db').body = GetAuthors(db).body
                    /\ GetGenres(db').body = GetGenres(db).body]_vars

\* a book was deleted, a second write request was then answered with an
\* error, and the seeded authors and genres are all stored
C11_Witness ==
  /\ runs = 1
  /\ nreq = 2
  /\ deleted # {}
  /\ last.op \in {"POST /books", "PUT /books/:id"}
  /\ last.status >= 400
  /\ Cardinality(db.authors) = Len(SeedAuthors)
  /\ Cardinality(db.genres) = Len(SeedGenres)

====
